---- MODULE Spec2Model ----
(***************************************************************************)
(* Model of the schedules REST service (src/api/schedules.js): the five    *)
(* route handlers over the `schedules` collection, with the store calls a  *)
(* handler awaits as the points where other requests may interleave.       *)
(*                                                                         *)
(* Strings that the code parses or orders (the external id, the route key) *)
(* are sequences of character codes; strings the code only tests for       *)
(* truthiness and copies (division, level, ...) are TLA+ strings, with ""  *)
(* standing for every falsy value (undefined, null, "").                   *)
(***************************************************************************)
EXTENDS Integers, Sequences, FiniteSets, TLC

\* ------------------------------------------------------------------ bounds
\* Request handlers that may be in flight at once.
Procs == {1, 2}
\* Candidates ever submitted for insertion in one behaviour of Spec.
MaxInserts == 2
\* Candidates ever submitted for insertion in one behaviour of SpecGrow.
MaxGrowInserts == 12
\* Records deleted in one behaviour of SpecGrow.
MaxGrowDeletes == 1
\* Candidates ever submitted for insertion in one behaviour of SpecRace.
MaxRaceInserts == 4
\* Candidates ever submitted for insertion in one behaviour of SpecLive.
MaxLiveInserts == 2

\* ----------------------------------------------------------------- strings
\* Character codes (ASCII) of the characters the model's keys and ids use.
DigitChar(d) == 48 + d
IsDigit(c) == c >= 48 /\ c <= 57
IsHex(c) == IsDigit(c) \/ (c >= 97 /\ c <= 102) \/ (c >= 65 /\ c <= 70)
HexChar(d) == IF d < 10 THEN 48 + d ELSE 87 + d

\* Number.prototype.toString for a non-negative integer (line 168).
RECURSIVE DecStr(_)
DecStr(n) == IF n < 10 THEN <<DigitChar(n)>>
             ELSE Append(DecStr(n \div 10), DigitChar(n % 10))

\* String(NaN) = "NaN".
NaNStr == <<78, 97, 78>>

\* A JS number as far as id generation goes: NaN or a non-negative integer.
Num(n) == [nan |-> FALSE, val |-> n]
NaN == [nan |-> TRUE, val |-> 0]
NumToString(x) == IF x.nan THEN NaNStr ELSE DecStr(x.val)
NumPlus1(x) == IF x.nan THEN NaN ELSE Num(x.val + 1)

\* parseInt(s) on a string without sign, whitespace or radix prefix: the value
\* of the longest prefix of decimal digits, NaN when that prefix is empty.
RECURSIVE DigitsValue(_, _, _)
DigitsValue(s, i, acc) ==
  IF i > Len(s) \/ ~IsDigit(s[i]) THEN acc
  ELSE DigitsValue(s, i + 1, 10 * acc + (s[i] - 48))
ParseInt(s) == IF Len(s) = 0 \/ ~IsDigit(s[1]) THEN NaN ELSE Num(DigitsValue(s, 1, 0))

\* The store's order on strings (simple binary collation): lexicographic by
\* character code, a proper prefix first.  This is the order of sort({id: -1}).
RECURSIVE StrLtFrom(_, _, _)
StrLtFrom(a, b, i) ==
  IF i > Len(a) THEN i <= Len(b)
  ELSE IF i > Len(b) THEN FALSE
  ELSE IF a[i] # b[i] THEN a[i] < b[i]
  ELSE StrLtFrom(a, b, i + 1)
StrLt(a, b) == StrLtFrom(a, b, 1)

\* ------------------------------------------------------------- ObjectIds
\* The store-assigned _id of the n-th inserted document, as the 24 hex
\* characters a client sees: here zeros followed by the two hex digits of n.
OidHexLen == 24
OidHex(n) ==
  [i \in 1..OidHexLen |->
     IF i = OidHexLen THEN HexChar(n % 16)
     ELSE IF i = OidHexLen - 1 THEN HexChar((n \div 16) % 16)
     ELSE DigitChar(0)]

\* Casting a route key to the _id path's ObjectId type (done when the filter
\* { _id: req.params.id } is cast): only a string of 24 hex characters casts;
\* any other string makes the query fail with a CastError.
CastsToObjectId(key) ==
  Len(key) = OidHexLen /\ \A i \in 1..Len(key) : IsHex(key[i])

\* ------------------------------------------------------------ request data
\* A JSON value the code expects to be an array: whether it is truthy,
\* whether Array.isArray holds of it, and its elements when it is an array.
Arr(items) == [truthy |-> TRUE, isArray |-> TRUE, items |-> items]
NotArr == [truthy |-> TRUE, isArray |-> FALSE, items |-> <<>>]
Absent == [truthy |-> FALSE, isArray |-> FALSE, items |-> <<>>]

Item(subject, prof) == [subject |-> subject, prof |-> prof]
Slot(hour, content) == [hour |-> hour, content |-> content]
Day(name, subjects) == [name |-> name, subjects |-> subjects]
Cand(division, level, term, year, days) ==
  [division |-> division, level |-> level, term |-> term, year |-> year, days |-> days]

\* The candidate schedules requests are built from.
OneDay == Arr(<<Day("Sat", Arr(<<Slot("9", Arr(<<Item("Math", "Ali")>>))>>))>>)
ValidA == Cand("CS", "L1", "T1", "2024", OneDay)
ValidB == Cand("CS", "L2", "T1", "2024", Arr(<<>>))
NoLevel == Cand("CS", "", "T1", "2024", OneDay)
NoDays == Cand("CS", "L1", "T1", "2024", Absent)
DaysNotArray == Cand("CS", "L1", "T1", "2024", NotArr)
BadDay == Cand("CS", "L1", "T1", "2024", Arr(<<Day("", Arr(<<>>))>>))
BadSlot == Cand("CS", "L1", "T1", "2024", Arr(<<Day("Sat", Arr(<<Slot("9", NotArr)>>))>>))
BadItem ==
  Cand("CS", "L1", "T1", "2024",
       Arr(<<Day("Sat", Arr(<<Slot("9", Arr(<<Item("Math", "Ali"), Item("", "Ali")>>))>>))>>))
NoProf ==
  Cand("CS", "L1", "T1", "2024",
       Arr(<<Day("Sat", Arr(<<Slot("9", Arr(<<Item("Math", "")>>))>>))>>))

\* ------------------------------------------------------- POST validation
\* The required-field test left out.
FieldsUnchecked(c) == TRUE

\* Line 114: the required top-level fields of one candidate.
FieldsPresent(c) ==
  c.division # "" /\ c.level # "" /\ c.term # "" /\ c.year # "" /\ c.days.truthy

\* Lines 142-152: a content item is kept when it has both subject and prof.
ItemOk(it) == it.subject # "" /\ it.prof # ""
\* Lines 134-158: an hour slot has an hour and an array of valid items.
SlotOk(sl) ==
  /\ sl.hour # "" /\ sl.content.isArray
  /\ \A i \in 1..Len(sl.content.items) : ItemOk(sl.content.items[i])
\* Lines 126-164: a day has a name and an array of valid hour slots.
DayOk(d) ==
  /\ d.name # "" /\ d.subjects.isArray
  /\ \A i \in 1..Len(d.subjects.items) : SlotOk(d.subjects.items[i])
\* The days taken as they come, nothing thrown.
DaysUnchecked(days) == TRUE

\* days.map(...) completes without throwing: days is an array (map exists)
\* and no callback throws.
DaysOk(days) == days.isArray /\ \A i \in 1..Len(days.items) : DayOk(days.items[i])

\* The formatted value the map callbacks return for valid input: plain
\* sequences of { name, subjects: [{ hour, content: [{ subject, prof }] }] }.
FormatSlot(sl) ==
  [hour |-> sl.hour,
   content |-> [i \in 1..Len(sl.content.items) |->
                  [subject |-> sl.content.items[i].subject,
                   prof |-> sl.content.items[i].prof]]]
FormatDay(d) ==
  [name |-> d.name,
   subjects |-> [i \in 1..Len(d.subjects.items) |-> FormatSlot(d.subjects.items[i])]]
FormatDays(days) == [i \in 1..Len(days.items) |-> FormatDay(days.items[i])]

\* ------------------------------------------------------------------- state
VARIABLES
  store,  \* the `schedules` collection: a set of documents
  post,   \* per handler slot: where its POST /schedules handler stands
  log,    \* history: the ids of the documents inserted so far, in order
  deletes,\* history: how many documents have been deleted so far
  last    \* the step taken last: the request, and the response if one was sent

vars == <<store, post, log, deletes, last>>

\* A stored document (lines 36-58); oid is the ordinal of its _id.
Doc(oid, id, c, days) ==
  [oid |-> oid, id |-> id, division |-> c.division, level |-> c.level,
   term |-> c.term, year |-> c.year, days |-> days]

\* A handler slot with no POST in flight.  Of a handler in flight: its place
\* (pc), the batch and the index k of the candidate in hand, the id computed
\* for it, and as history the documents it created, the store calls it made,
\* the size of the store when the request arrived and the responses it has
\* sent.
IdlePost == [pc |-> "idle", batch |-> <<>>, k |-> 0, newId |-> <<>>, created |-> <<>>,
             calls |-> 0, start |-> 0, sent |-> 0]

\* A PUT body: the fields it sets (a set with the value, empty when the body
\* does not carry the field).
Patch(level, id) == [level |-> level, id |-> id]
NoPatch == Patch({}, {})

\* What a step records in `last`.  status 0: the step sent no response.
Step(op, p, key, status, msg, body, h) ==
  [op |-> op, p |-> p, key |-> key, status |-> status, msg |-> msg, body |-> body,
   batch |-> h.batch, k |-> h.k, created |-> h.created, calls |-> h.calls,
   start |-> h.start, patch |-> NoPatch,
   sent |-> h.sent + (IF status # 0 THEN 1 ELSE 0)]

\* ------------------------------------------------------------- store calls
\* The collection without its unique index: every id is accepted.
UniqueIdOff(s, id) == TRUE

\* Line 37, unique: true -- the unique index on id refuses a second document
\* with an id some other document already has.
UniqueIdOk(s, id) == \A r \in s : r.id # id

\* Line 122: findOne().sort({ id: -1 }) -- the document whose id is greatest
\* in the store's string order.
MaxIdDoc(s) == CHOOSE r \in s : \A q \in s : ~StrLt(r.id, q.id)

\* Line 123: maxId ? parseInt(maxId.id) + 1 : 1
NewId(s) == IF s = {} THEN Num(1) ELSE NumPlus1(ParseInt(MaxIdDoc(s).id))

\* Lines 86, 191, 209: { $or: [{ id: key }, { _id: key }] } against one document,
\* once the filter has been cast.
Matches(r, key) == r.id = key \/ OidHex(r.oid) = key
Matching(s, key) == {r \in s : Matches(r, key)}

\* ------------------------------------------------------- POST /schedules
\* The loop head with the `return` of line 115 left out: the 400 is sent and
\* the handler goes on with the candidate.
LoopHeadNoReturn(p, f, h) ==
  IF h.k > Len(h.batch)
    THEN /\ post' = [f EXCEPT ![p] = IdlePost]
         /\ last' = Step(h.op, p, <<>>, 201, "Schedules created successfully", {}, h)
  ELSE /\ post' = [f EXCEPT ![p] =
                     [pc |-> "findMax", batch |-> h.batch, k |-> h.k, newId |-> <<>>,
                      created |-> h.created, calls |-> h.calls, start |-> h.start,
                      sent |-> h.sent + (IF FieldsPresent(h.batch[h.k]) THEN 0 ELSE 1)]]
       /\ last' = IF FieldsPresent(h.batch[h.k])
                    THEN Step(h.op, p, <<>>, 0, "", {}, h)
                    ELSE Step(h.op, p, <<>>, 400, "All fields are required", {}, h)

\* Lines 110-119 and 179: the head of the loop for candidate k, run
\* synchronously up to the next store call.  h is the handler's state.
LoopHead(p, f, h) ==
  IF h.k > Len(h.batch)
    THEN /\ post' = [f EXCEPT ![p] = IdlePost]
         /\ last' = Step(h.op, p, <<>>, 201, "Schedules created successfully", {}, h)
  ELSE IF ~FieldsPresent(h.batch[h.k])
    THEN /\ post' = [f EXCEPT ![p] = IdlePost]
         /\ last' = Step(h.op, p, <<>>, 400, "All fields are required", {}, h)
  ELSE /\ post' = [f EXCEPT ![p] =
                     [pc |-> "findMax", batch |-> h.batch, k |-> h.k, newId |-> <<>>,
                      created |-> h.created, calls |-> h.calls, start |-> h.start,
                      sent |-> h.sent]]
       /\ last' = Step(h.op, p, <<>>, 0, "", {}, h)

\* The batch guard without its length test.
BatchRefusedUnlessEmpty(schedules) == ~schedules.truthy \/ ~schedules.isArray

\* Line 102: the body's `schedules` is missing, no array, or empty.
BatchRefused(schedules) ==
  ~schedules.truthy \/ ~schedules.isArray \/ Len(schedules.items) = 0

\* Lines 99-107: the request arrives; schedules is the body's field.
PostRequest(p, schedules) ==
  /\ post[p].pc = "idle"
  /\ LET h == [op |-> "postRequest", batch |-> schedules.items, k |-> 1,
               created |-> <<>>, calls |-> 0, start |-> Cardinality(store),
               sent |-> 0]
     IN IF BatchRefused(schedules)
          THEN /\ post' = post
               /\ last' = Step("postRequest", p, <<>>, 400, "Schedules array is required",
                               {}, [h EXCEPT !.k = 0])
          ELSE LoopHead(p, post, h)
  /\ UNCHANGED <<store, log, deletes>>

\* Lines 122-174: the store answers the max-id query; the handler computes
\* newId, formats the days (a throw is caught at line 180) and calls save.
PostFindMax(p) ==
  /\ post[p].pc = "findMax"
  /\ LET h == [post[p] EXCEPT !.calls = @ + 1]
         c == h.batch[h.k]
     IN IF ~DaysOk(c.days)
          THEN /\ post' = [post EXCEPT ![p] = IdlePost]
               /\ last' = Step("postFindMax", p, <<>>, 400, "Failed to create schedules",
                               {}, h)
          ELSE /\ post' = [post EXCEPT ![p] =
                             [h EXCEPT !.pc = "save", !.newId = NumToString(NewId(store))]]
               /\ last' = Step("postFindMax", p, <<>>, 0, "", {}, h)
  /\ UNCHANGED <<store, log, deletes>>

\* Numerically largest id in the store, 0 when there is none (history only).
NumericMax(s) ==
  LET vals == {ParseInt(r.id).val : r \in s}
  IN IF vals = {} THEN 0 ELSE CHOOSE v \in vals : \A w \in vals : w <= v

\* Lines 176-184: the store answers save(); a duplicate id is a write error
\* caught at line 180, otherwise the loop goes on with the next candidate.
PostSave(p) ==
  /\ post[p].pc = "save"
  /\ LET h == [post[p] EXCEPT !.calls = @ + 1]
         c == h.batch[h.k]
         d == Doc(Len(log) + 1, h.newId, c, FormatDays(c.days))
     IN IF ~UniqueIdOk(store, h.newId)
          THEN /\ post' = [post EXCEPT ![p] = IdlePost]
               /\ last' = Step("postSave", p, <<>>, 400, "Failed to create schedules", {}, h)
               /\ UNCHANGED <<store, log>>
          ELSE /\ store' = store \cup {d}
               /\ log' = Append(log, h.newId)
               /\ LoopHead(p, post,
                           [op |-> "postSave", batch |-> h.batch, k |-> h.k + 1,
                            created |-> Append(h.created,
                               [oid |-> d.oid, id |-> d.id,
                                expect |-> DecStr(NumericMax(store) + 1)]),
                            calls |-> h.calls, start |-> h.start, sent |-> h.sent])
  /\ UNCHANGED deletes

\* ------------------------------------------- GET, PUT, DELETE by route key
\* A request that is no POST has no batch.
NoPost == [batch |-> <<>>, k |-> 0, created |-> <<>>, calls |-> 1, start |-> 0,
           sent |-> 0]
PutStep(key, status, msg, body, patch) ==
  [Step("put", 0, key, status, msg, body, NoPost) EXCEPT !.patch = patch]

\* Lines 71-80: GET /schedules.
List ==
  /\ last' = Step("list", 0, <<>>, 200, "", store, NoPost)
  /\ UNCHANGED <<store, post, log, deletes>>

\* Lines 83-96: GET /schedules/:id.  A key the _id filter cannot be cast from
\* rejects the query, which the catch turns into 500.
Get(key) ==
  /\ IF ~CastsToObjectId(key)
       THEN last' = Step("get", 0, key, 500, "Failed to retrieve schedule", {}, NoPost)
     ELSE IF Matching(store, key) = {}
       THEN last' = Step("get", 0, key, 404, "Schedule not found", {}, NoPost)
     ELSE \E r \in Matching(store, key) :
            last' = Step("get", 0, key, 200, "", {r}, NoPost)
  /\ UNCHANGED <<store, post, log, deletes>>

\* The update { $set: body } applied to the matched document.
ApplyPatch(r, patch) ==
  [r EXCEPT !.level = IF patch.level = {} THEN @ ELSE CHOOSE v \in patch.level : TRUE,
            !.id = IF patch.id = {} THEN @ ELSE CHOOSE v \in patch.id : TRUE]
\* runValidators: true -- a required path may not be set to an empty string.
PatchValid(patch) == "" \notin patch.level

\* Lines 188-203: PUT /schedules/:id.  The filter's cast and the update
\* validators run before the store is asked; every throw is answered 400.
Put(key, patch) ==
  /\ IF ~CastsToObjectId(key) \/ ~PatchValid(patch)
       THEN /\ last' = PutStep(key, 400, "Failed to update schedule", {}, patch)
            /\ UNCHANGED <<store, post>>
     ELSE IF Matching(store, key) = {}
       THEN /\ last' = PutStep(key, 404, "Schedule not found", {}, patch)
            /\ UNCHANGED <<store, post>>
     ELSE \E r \in Matching(store, key) :
            LET u == ApplyPatch(r, patch)
            IN IF ~UniqueIdOk(store \ {r}, u.id)
                 THEN /\ last' = PutStep(key, 400, "Failed to update schedule", {}, patch)
                      /\ UNCHANGED <<store, post>>
                 ELSE /\ last' = PutStep(key, 200, "", {u}, patch)
                      /\ store' = (store \ {r}) \cup {u}
                      /\ post' = post
  /\ UNCHANGED <<log, deletes>>

\* Lines 206-219: DELETE /schedules/:id.
Delete(key) ==
  /\ IF ~CastsToObjectId(key)
       THEN /\ last' = Step("delete", 0, key, 500, "Failed to delete schedule", {}, NoPost)
            /\ UNCHANGED <<store, deletes, post>>
     ELSE IF Matching(store, key) = {}
       THEN /\ last' = Step("delete", 0, key, 404, "Schedule not found", {}, NoPost)
            /\ UNCHANGED <<store, deletes, post>>
     ELSE \E r \in Matching(store, key) :
            /\ last' = Step("delete", 0, key, 204, "", {}, NoPost)
            /\ store' = store \ {r}
            /\ deletes' = deletes + 1
            /\ post' = post
  /\ UNCHANGED log

\* ------------------------------------------------------------ store errors
\* Lines 180-184: the store call a POST handler awaits (the max-id query or
\* the save) fails; the catch answers 400.
PostStoreFails(p) ==
  /\ post[p].pc \in {"findMax", "save"}
  /\ post' = [post EXCEPT ![p] = IdlePost]
  /\ last' = Step("postStoreError", p, <<>>, 400, "Failed to create schedules", {},
                  [post[p] EXCEPT !.calls = @ + 1])
  /\ UNCHANGED <<store, log, deletes>>

\* Lines 75-79, 91-95, 198-202, 214-218: the one store call of a GET, PUT or
\* DELETE handler fails; the catch answers 500, and 400 for a PUT.
RequestStoreFails(op, key) ==
  /\ last' = Step(op, 0, key, IF op = "put" THEN 400 ELSE 500, "Failed", {}, NoPost)
  /\ UNCHANGED <<store, post, log, deletes>>

\* ---------------------------------------------------------- specifications
Init ==
  /\ store = {}
  /\ post = [p \in Procs |-> IdlePost]
  /\ log = <<>>
  /\ deletes = 0
  /\ last = Step("init", 0, <<>>, 0, "", {}, [NoPost EXCEPT !.calls = 0])

\* The request bodies made of the batches B, and the bodies whose `schedules`
\* is missing or no array.
Bodies(B) == {Arr(b) : b \in B} \cup {NotArr, Absent}

\* Candidates handlers in flight have still to submit.
RECURSIVE Pending(_)
Pending(S) ==
  IF S = {} THEN 0
  ELSE LET q == CHOOSE x \in S : TRUE
       IN (IF post[q].pc = "idle" THEN 0 ELSE Len(post[q].batch) - post[q].k + 1)
          + Pending(S \ {q})
Budget(schedules, cap) == Len(log) + Pending(Procs) + Len(schedules.items) <= cap

AllIdle == \A q \in Procs : post[q].pc = "idle"

\* Spec: every route, handlers interleaving at their store calls.
SpecBatches == {<<>>, <<ValidA>>, <<ValidB, ValidA>>, <<ValidA, NoLevel>>, <<BadItem>>}
SpecKeys == {DecStr(1), OidHex(1), OidHex(2)}
SpecPatches == {Patch({"L2"}, {}), Patch({""}, {}), Patch({}, {DecStr(9)})}

Next ==
  \/ \E p \in Procs :
       \/ \E b \in Bodies(SpecBatches) : Budget(b, MaxInserts) /\ PostRequest(p, b)
       \/ PostFindMax(p)
       \/ PostSave(p)
  \/ List
  \/ \E key \in SpecKeys :
       \/ Get(key)
       \/ Delete(key)
       \/ \E patch \in SpecPatches : Put(key, patch)

Spec == Init /\ [][Next]_vars

\* SpecGrow: POST and DELETE requests served one at a time, far enough for
\* the collection to hold ten and more documents.
GrowBatches ==
  {<<>>, <<ValidA>>, <<ValidA, ValidA>>, <<NoLevel>>, <<ValidA, NoDays>>,
   <<ValidA, DaysNotArray>>, <<ValidA, BadDay>>, <<ValidA, BadSlot>>, <<ValidA, BadItem>>,
   <<ValidA, ValidA, NoLevel>>, <<NoProf>>}
GrowKeys == {DecStr(1)} \cup {OidHex(n) : n \in 1..MaxGrowInserts}

NextGrow ==
  \/ \E b \in Bodies(GrowBatches) :
       AllIdle /\ Budget(b, MaxGrowInserts) /\ PostRequest(1, b)
  \/ PostFindMax(1)
  \/ PostSave(1)
  \/ \E key \in GrowKeys : AllIdle /\ deletes < MaxGrowDeletes /\ Delete(key)

SpecGrow == Init /\ [][NextGrow]_vars

\* SpecRace: POST requests alone, their handlers interleaving at the store
\* calls.
RaceBatches == {<<ValidA>>, <<ValidB, ValidA>>}

NextRace ==
  \E p \in Procs :
    \/ \E b \in RaceBatches : Budget(Arr(b), MaxRaceInserts) /\ PostRequest(p, Arr(b))
    \/ PostFindMax(p)
    \/ PostSave(p)

SpecRace == Init /\ [][NextRace]_vars

\* SpecLive: every route, with store calls that may fail, and every store
\* call a POST handler awaits eventually answered or failed.
LiveBatches == {<<>>, <<ValidA>>, <<ValidA, NoLevel>>, <<ValidA, BadItem>>}
LiveKeys == {DecStr(1), OidHex(1)}
LivePatches == {Patch({"L2"}, {}), Patch({""}, {})}

NextLive ==
  \/ \E p \in Procs :
       \/ \E b \in Bodies(LiveBatches) : Budget(b, MaxLiveInserts) /\ PostRequest(p, b)
       \/ PostFindMax(p)
       \/ PostSave(p)
       \/ PostStoreFails(p)
  \/ List
  \/ RequestStoreFails("list", <<>>)
  \/ \E key \in LiveKeys :
       \/ Get(key)
       \/ Delete(key)
       \/ \E patch \in LivePatches : Put(key, patch)
       \/ \E op \in {"get", "put", "delete"} : RequestStoreFails(op, key)

StoreAnswers(p) == PostFindMax(p) \/ PostSave(p) \/ PostStoreFails(p)

SpecLive == Init /\ [][NextLive]_vars /\ \A p \in Procs : WF_vars(StoreAnswers(p))

\* ================================================================== claims
\* A step of a POST handler that sent the response.
PostResponded(l) == l.op \in {"postRequest", "postFindMax", "postSave"} /\ l.status # 0
\* The value of an id read as a number.
IdValue(id) == ParseInt(id).val

\* The created documents c have the ids C1 states: each the numerically
\* largest id of the store just before its save, plus one (1 for an empty
\* store), and increasing in batch order.
CreatedAsStated(c) ==
  \A i \in 1..Len(c) :
    /\ c[i].id = c[i].expect
    /\ i > 1 => IdValue(c[i - 1].id) < IdValue(c[i].id)

\* C1: every record a POST creates, served without concurrent requests from
\* any reachable store, has as id the numerically largest id present just
\* before its save plus one (1 when the store is empty), so the ids of one
\* batch increase in batch order.
C1_IdIsNumericMaxPlusOne ==
  /\ \A p \in Procs : CreatedAsStated(post[p].created)
  /\ CreatedAsStated(last.created)

\* C2: in every reachable state no two documents of the store have the same
\* external id.
C2_UniqueIds == \A r, q \in store : r.id = q.id => r = q

\* C2 witness: a save was refused as a duplicate while the store holds the
\* document whose id it repeats.
C2_Witness ==
  /\ last.op = "postSave" /\ last.status = 400
  /\ store # {}

\* The ids inserted so far, in insertion order, are strictly increasing.
LogIncreasing ==
  \A i, j \in 1..Len(log) : i < j => IdValue(log[i]) < IdValue(log[j])

\* C3 (as stated): over any sequence of POST and DELETE requests the id
\* given to a newly inserted record is greater than the id given to every
\* record inserted before it.
C3_Original == LogIncreasing

\* C3 (amended): as long as no record has been deleted, the id given to a
\* newly inserted record is greater than the id given to every record
\* inserted before it.
C3_IncreasingUntilDelete == deletes = 0 => LogIncreasing

\* C3 witness: ten records inserted one after the other and none deleted.
C3_Witness == deletes = 0 /\ Len(log) = 10

\* C4: a POST whose `schedules` is missing, no array or empty is answered 400,
\* makes no store call and leaves the store as it was.
C4_RefusedBatchWritesNothing ==
  [][(last'.op = "postRequest" /\ last'.batch = <<>>)
       => /\ last'.status = 400
          /\ last'.calls = 0
          /\ last'.created = <<>>
          /\ store' = store
          /\ log' = log]_vars

\* C4 witness: a POST with no usable batch was answered 400 over a store that
\* holds a document.
C4_Witness ==
  /\ last.op = "postRequest" /\ last.batch = <<>> /\ last.status = 400
  /\ store # {}

\* A candidate as the claims call valid: division, level, term, year and days
\* present, every day with a name and an array of hour slots, every slot with
\* an hour and an array of content items, every item with subject and prof.
WellFormed(c) ==
  /\ "" \notin {c.division, c.level, c.term, c.year}
  /\ c.days.truthy /\ c.days.isArray
  /\ \A i \in 1..Len(c.days.items) :
       LET d == c.days.items[i]
       IN /\ d.name # "" /\ d.subjects.isArray
          /\ \A j \in 1..Len(d.subjects.items) :
               LET sl == d.subjects.items[j]
               IN /\ sl.hour # "" /\ sl.content.isArray
                  /\ \A n \in 1..Len(sl.content.items) :
                       "" \notin {sl.content.items[n].subject, sl.content.items[n].prof}

\* The position of the first candidate of batch b that is not valid.
HasInvalid(b) == \E k \in 1..Len(b) : ~WellFormed(b[k])
FirstInvalid(b) ==
  CHOOSE k \in 1..Len(b) : ~WellFormed(b[k]) /\ \A j \in 1..(k - 1) : WellFormed(b[j])

\* The i-th candidate of the request l describes is in the store as the
\* document the request created for it.
Persisted(l, i) ==
  \E r \in store :
    /\ r.oid = l.created[i].oid
    /\ r = Doc(r.oid, r.id, l.batch[i], FormatDays(l.batch[i].days))

\* C5: a POST whose first invalid candidate is at position k is answered 400
\* with exactly the k-1 candidates before it persisted, and neither candidate
\* k nor a later one.
C5_PrefixPersisted ==
  (PostResponded(last) /\ HasInvalid(last.batch)) =>
    LET k == FirstInvalid(last.batch)
    IN /\ last.status = 400
       /\ Len(last.created) = k - 1
       /\ \A i \in 1..(k - 1) : Persisted(last, i)

\* The response l is a POST's 400 for a candidate that failed validation:
\* the required-field test (line 114) or a throw while formatting its days.
ValidationFailure(l) ==
  /\ PostResponded(l) /\ l.status = 400 /\ l.k >= 1
  /\ l.msg = "All fields are required" \/ l.op = "postFindMax"

\* C6 (as stated): a POST answered 400 because a candidate fails validation
\* has written no record.
C6_Original == ValidationFailure(last) => last.created = <<>>

\* C6 (amended): a candidate's validation errors are detected before that
\* candidate is written: a POST answered 400 because candidate k fails
\* validation has written the k-1 valid candidates before it and nothing for
\* candidate k or a later one, and no request ever writes an invalid candidate.
C6_InvalidNeverWritten ==
  /\ ValidationFailure(last) =>
       /\ Len(last.created) = last.k - 1
       /\ ~WellFormed(last.batch[last.k])
  /\ \A i \in 1..Len(last.created) : WellFormed(last.batch[i])
  /\ \A p \in Procs : \A i \in 1..Len(post[p].created) : WellFormed(post[p].batch[i])

\* C6 witness: the second candidate of a batch failed validation after the
\* first had been written.
C6_Witness == ValidationFailure(last) /\ last.k = 2 /\ Len(last.created) = 1

\* C7: a POST is answered 201 only when every candidate of its batch was
\* persisted as a record of its own (served alone, the store then holds
\* batch-length more records than before); when a candidate fails validation
\* or a save fails the answer is 400.
C7_CreatedOnlyOnFullSuccess ==
  PostResponded(last) =>
    /\ last.status \in {201, 400}
    /\ last.status = 201 =>
         /\ \A i \in 1..Len(last.batch) : WellFormed(last.batch[i])
         /\ Len(last.created) = Len(last.batch)
         /\ \A i \in 1..Len(last.batch) : Persisted(last, i)
         /\ \A i, j \in 1..Len(last.created) :
              i # j => last.created[i].oid # last.created[j].oid
         /\ Cardinality(store) = last.start + Len(last.batch)
    /\ (HasInvalid(last.batch) \/ Len(last.created) < Len(last.batch)) =>
         last.status = 400

\* C7 witness: a batch of two was answered 201 over a store that already held
\* a record.
C7_Witness ==
  /\ PostResponded(last) /\ last.status = 201
  /\ Len(last.batch) = 2 /\ last.start >= 1

\* C8: GET /schedules/:id answers 200 with a record whose external id or
\* internal identity equals the key when there is one, 404 with the message
\* "Schedule not found" when there is none, and never 500.
C8_GetByKey ==
  last.op = "get" =>
    IF Matching(store, last.key) # {}
      THEN last.status = 200 /\ last.body # {} /\ last.body \subseteq Matching(store, last.key)
      ELSE last.status = 404 /\ last.msg = "Schedule not found"

\* C9: of two DELETEs in a row for the id of an existing record, the first is
\* answered 204 and removes that record and no other, the second is answered
\* 404 and changes nothing.
C9_DeleteTwice ==
  [][last'.op = "delete" =>
       /\ Matching(store, last'.key) # {} =>
            /\ last'.status = 204
            /\ \E r \in Matching(store, last'.key) : store' = store \ {r}
       /\ (last.op = "delete" /\ last.status = 204 /\ last.key = last'.key) =>
            /\ last'.status = 404
            /\ store' = store]_vars

\* C10: a PUT on an existing record with a body of `level` alone sets that
\* record's level, leaves its other fields and every other record as they
\* were, and is answered 200 with the record as updated.
C10_PutLevelOnly ==
  [][(/\ last'.op = "put"
      /\ last'.patch = Patch({"L2"}, {})
      /\ Matching(store, last'.key) # {})
       => \E r \in Matching(store, last'.key) :
            LET u == [r EXCEPT !.level = "L2"]
            IN /\ last'.status = 200
               /\ last'.body = {u}
               /\ store' = (store \ {r}) \cup {u}]_vars

\* The stored days are the posted days: the same day names, hours, subjects
\* and profs in the same order.
SameDays(stored, posted) ==
  /\ Len(stored) = Len(posted.items)
  /\ \A i \in 1..Len(stored) :
       LET d == stored[i]
           e == posted.items[i]
       IN /\ d.name = e.name
          /\ Len(d.subjects) = Len(e.subjects.items)
          /\ \A j \in 1..Len(d.subjects) :
               LET sl == d.subjects[j]
                   tl == e.subjects.items[j]
               IN /\ sl.hour = tl.hour
                  /\ Len(sl.content) = Len(tl.content.items)
                  /\ \A n \in 1..Len(sl.content) :
                       /\ sl.content[n].subject = tl.content.items[n].subject
                       /\ sl.content[n].prof = tl.content.items[n].prof

\* C11: after a POST of one valid schedule has been answered 201, a GET by
\* the id it was given returns the record with the posted division, level,
\* term, year and days.
C11_RoundTrip ==
  [][(/\ PostResponded(last) /\ last.status = 201 /\ Len(last.batch) = 1
      /\ last'.op = "get"
      /\ last'.key = last.created[1].id)
       => /\ last'.status = 200
          /\ \E r \in last'.body :
               LET c == last.batch[1]
               IN /\ r.id = last'.key
                  /\ r.division = c.division /\ r.level = c.level
                  /\ r.term = c.term /\ r.year = c.year
                  /\ SameDays(r.days, c.days)]_vars

\* A candidate that is valid but for content items that carry a subject and
\* no prof, and has such an item.
ValidButProf(c) ==
  /\ "" \notin {c.division, c.level, c.term, c.year}
  /\ c.days.truthy /\ c.days.isArray
  /\ \A i \in 1..Len(c.days.items) :
       LET d == c.days.items[i]
       IN /\ d.name # "" /\ d.subjects.isArray
          /\ \A j \in 1..Len(d.subjects.items) :
               LET sl == d.subjects.items[j]
               IN /\ sl.hour # "" /\ sl.content.isArray
                  /\ \A n \in 1..Len(sl.content.items) : sl.content.items[n].subject # ""
  /\ ~WellFormed(c)

\* C12: prof is optional -- a POST (here to an empty store) of one candidate
\* that is valid but for a content item with a subject and no prof is
\* accepted, and the candidate is persisted with that item's prof empty.
C12_ProfOptional ==
  (PostResponded(last) /\ Len(last.batch) = 1 /\ ValidButProf(last.batch[1])
     /\ last.start = 0) =>
    /\ last.status = 201
    /\ Len(last.created) = 1
    /\ \E r \in store : r.oid = last.created[1].oid /\ SameDays(r.days, last.batch[1].days)

\* A PUT body as C13 calls failing validation: it sets a required field to
\* the empty string.
PatchInvalid(patch) == patch.level = {""}

\* C13: a PUT on an existing record with a patch that fails validation is
\* answered 400 and changes nothing; a PUT (with a valid patch) whose key
\* matches no record is answered 404 and changes nothing.
C13_PutRejections ==
  [][last'.op = "put" =>
       /\ (Matching(store, last'.key) # {} /\ PatchInvalid(last'.patch)) =>
            last'.status = 400 /\ store' = store
       /\ (Matching(store, last'.key) = {} /\ ~PatchInvalid(last'.patch)) =>
            last'.status = 404 /\ last'.msg = "Schedule not found" /\ store' = store]_vars

\* C14: when POST handlers race, a save whose id another request has stored
\* in the meantime is refused: that request is answered 400, stores nothing
\* and drops the rest of its batch, while a save whose id is free stores one
\* record; so of two handlers that computed the same id one save succeeds,
\* no id is ever stored twice, and no id is created by two requests.
C14_RaceRefused ==
  [][/\ \A p \in Procs :
          (post[p].pc = "save" /\ last'.op = "postSave" /\ last'.p = p) =>
            IF \E r \in store : r.id = post[p].newId
              THEN /\ last'.status = 400
                   /\ store' = store
                   /\ last'.created = post[p].created
                   /\ post'[p].pc = "idle"
              ELSE /\ Cardinality(store') = Cardinality(store) + 1
                   /\ \E r \in store' \ store : r.id = post[p].newId
                   /\ \A q \in Procs \ {p} :
                        (post[q].pc = "save" /\ post[q].newId = post[p].newId) =>
                          /\ post'[q] = post[q]
                          /\ \E r \in store' : r.id = post'[q].newId
     /\ \A r, q \in store' : r.id = q.id => r = q
     /\ \A i, j \in 1..Len(log') : i # j => log'[i] # log'[j]]_vars

\* C14 witness: two handlers computed the same id, one stored it and the
\* other's save was refused with nothing written by that request.
C14_Witness ==
  /\ last.op = "postSave" /\ last.status = 400 /\ last.created = <<>>
  /\ \E q \in Procs \ {last.p} :
       \E i \in 1..Len(post[q].created) : post[q].created[i].id = DecStr(1)

\* C15: no PUT changes the external id of a record: after a PUT every record
\* has the id it had before, so every stored id is one the creation handler
\* produced.
C15_IdImmutable ==
  [][last'.op = "put" =>
       /\ \A r \in store : \E u \in store' : u.oid = r.oid /\ u.id = r.id
       /\ \A u \in store' : \E i \in 1..Len(log') : log'[i] = u.id]_vars

\* C16: every request gets exactly one response on every path.  A POST in
\* flight has sent none and, its store calls being answered or failing, comes
\* to its end; a handler ends in the step that sends its response; and no
\* request has ever sent a second response (so no 201 after a 400).
C16_ExactlyOneResponse ==
  /\ \A p \in Procs : (post[p].pc # "idle") ~> (post[p].pc = "idle")
  /\ [](\A p \in Procs : post[p].sent = 0)
  /\ [](last.op # "init" => last.sent = (IF last.status # 0 THEN 1 ELSE 0))
  /\ [](last.op \in {"list", "get", "put", "delete", "postStoreError"} => last.status # 0)
  /\ [][\A p \in Procs :
          (post[p].pc # "idle" /\ post'[p].pc = "idle") =>
            (last'.p = p /\ last'.status \in {201, 400})]_vars

\* C16 witness: a POST that failed at its second candidate has sent its 400,
\* once.
C16_Witness ==
  /\ last.op \in {"postSave", "postFindMax", "postStoreError"}
  /\ last.status = 400 /\ last.k = 2 /\ last.sent = 1
====
